---- MODULE Spec2Model ----
(***************************************************************************)
(* Model of scripts/update_data.py: the directory fetch, the Slack message *)
(* and thread-reply count, the Linear completion count, the reconcile loop *)
(* of main() and the write of data/engagement.csv.                         *)
(*                                                                         *)
(* Three specifications share the definitions below:                       *)
(*   Spec      one run of main(), one action per function call;            *)
(*   SpecSlack fetch_slack_data() alone, one action per API call and one   *)
(*             per iteration of its message loop, its locals in the state; *)
(*   SpecRuns  successive runs of main() over the same data/engagement.csv.*)
(***************************************************************************)
EXTENDS Integers, Sequences, FiniteSets, TLC

VARIABLES
    pc,              \* position of the run
    token,           \* os.environ has SLACK_TOKEN (read at lines 13 and 46)
    members,         \* users_resp["members"] as the workspace serves it
    user_directory,  \* main(): user_directory
    df_slack,        \* main(): df_slack, Email -> Slack Count
    df_linear,       \* main(): df_linear, Email -> Linear Count
    rows,            \* main(): rows
    file,            \* data/engagement.csv
    prev_file,       \* data/engagement.csv as the run found it
    status,          \* what each fetch stage printed: ok, skipped or error
    uid_to_email,    \* fetch_slack_data(): uid_to_email
    messages,        \* fetch_slack_data(): messages
    i,               \* fetch_slack_data(): index of the message at hand (1-based)
    counts,          \* fetch_slack_data(): counts
    threads          \* conversations_replies results, by message index

vars == <<pc, token, members, user_directory, df_slack, df_linear, rows, file,
          prev_file, status, uid_to_email, messages, i, counts, threads>>

mainVars == <<user_directory, df_slack, df_linear, rows, file, prev_file>>
slackVars == <<uid_to_email, messages, i, counts, threads>>

---------------------------------------------------------------------------
(* Bounds of the model *)

MaxMsgs == 2
MaxReplies == 1
MaxIssues == 2
MaxCount == 1

(* Program constants *)

EmployeeHours == 40
DefaultHours == 20

---------------------------------------------------------------------------
(* Python dicts: functions whose DOMAIN is the set of keys *)

EmptyMap == [k \in {} |-> 0]

Get(d, k, default) == IF k \in DOMAIN d THEN d[k] ELSE default

Put(d, k, v) == [x \in (DOMAIN d) \cup {k} |-> IF x = k THEN v ELSE d[x]]

---------------------------------------------------------------------------
(* The upstream workspace *)

NoEmail == ""   \* the profile holds no "email" key
NoUser == "none"
NoTs == 0

U1Employee ==
    [id |-> "U1", name |-> "alice", real_name |-> "Alice A", is_bot |-> FALSE,
     deleted |-> FALSE, has_profile |-> TRUE, email |-> "a@x.com",
     image_48 |-> "a.png", is_restricted |-> FALSE, is_ultra_restricted |-> FALSE]

U1Deactivated == [U1Employee EXCEPT !.deleted = TRUE]

U2Guest ==
    [id |-> "U2", name |-> "bob", real_name |-> "", is_bot |-> FALSE,
     deleted |-> FALSE, has_profile |-> TRUE, email |-> "b@y.com",
     image_48 |-> "", is_restricted |-> TRUE, is_ultra_restricted |-> FALSE]

U2NoEmail == [U2Guest EXCEPT !.email = NoEmail]

B1Bot ==
    [id |-> "B1", name |-> "deploybot", real_name |-> "", is_bot |-> TRUE,
     deleted |-> FALSE, has_profile |-> TRUE, email |-> NoEmail,
     image_48 |-> "", is_restricted |-> FALSE, is_ultra_restricted |-> FALSE]

Workspaces ==
    {<<u1, u2, B1Bot>> : u1 \in {U1Employee, U1Deactivated},
                         u2 \in {U2Guest, U2NoEmail}}

Emails == {"a@x.com", "b@y.com"}
AuthorIds == {"U1", "U2"}

CallOutcomes == {"ok", "api_error", "transport"}

---------------------------------------------------------------------------
(* fetch_slack_user_directory *)

IsGuest(u) == u.is_restricted \/ u.is_ultra_restricted

Profile(u) ==
    [UserName |-> IF u.real_name # "" THEN u.real_name ELSE u.name,
     Role |-> IF IsGuest(u) THEN "Contractor" ELSE "Employee",
     Avatar |-> u.image_48]

RECURSIVE DirectoryFrom(_, _, _)
DirectoryFrom(ms, k, d) ==
    IF k > Len(ms) THEN d
    ELSE LET u == ms[k] IN
         IF u.is_bot \/ u.deleted \/ ~u.has_profile THEN DirectoryFrom(ms, k + 1, d)
         ELSE IF u.email = NoEmail THEN DirectoryFrom(ms, k + 1, d)
         ELSE DirectoryFrom(ms, k + 1, Put(d, u.email, Profile(u)))

BuildDirectory(ms) == DirectoryFrom(ms, 1, EmptyMap)

---------------------------------------------------------------------------
(* fetch_slack_data: the data the platform serves *)

TsStride == MaxReplies + 1

(* The k-th message of the history. thread_ts is the message's own ts when   *)
(* the message heads a thread; reply_count counts the replies ever made,     *)
(* inside the window or not.                                                 *)
MsgAt(k, user, subtype, bot, threaded, replies) ==
    [ts |-> k * TsStride, user |-> user, subtype |-> subtype, bot |-> bot,
     thread_ts |-> IF threaded THEN k * TsStride ELSE NoTs,
     reply_count |-> replies]

ParentChoices ==
    {<<u, FALSE, FALSE>> : u \in AuthorIds} \cup {<<NoUser, TRUE, FALSE>>, <<"B1", FALSE, TRUE>>}

ThreadChoices == {<<FALSE, 0>>, <<TRUE, 0>>, <<TRUE, MaxReplies>>}

HistoriesOfLen(n) ==
    {[k \in 1..n |-> MsgAt(k, c[k][1][1], c[k][1][2], c[k][1][3], c[k][2][1], c[k][2][2])] :
        c \in [1..n -> ParentChoices \X ThreadChoices]}

Histories == UNION {HistoriesOfLen(n) : n \in 0..MaxMsgs}

ReplyChoices == {<<u, FALSE>> : u \in AuthorIds} \cup {<<"B1", TRUE>>}

(* conversations.replies serves the thread's parent first, then the replies  *)
(* of the window, each with a timestamp of its own.                          *)
ParentEntry(msg) == [ts |-> msg.ts, user |-> msg.user, bot |-> msg.bot]

ReplyShapes == UNION {[1..n -> ReplyChoices] : n \in 0..MaxReplies}

Payload(msg, shape) ==
    <<ParentEntry(msg)>> \o
      [j \in 1..Len(shape) |-> [ts |-> msg.ts + j, user |-> shape[j][1], bot |-> shape[j][2]]]

(* One thread's conversations_replies call. status is what the first call    *)
(* does: it returns, it raises SlackApiError (rate limit, API error), or it  *)
(* raises a transport exception. The replies are those the platform holds    *)
(* for the thread: what a call that returns hands back.                      *)
ThreadShapes ==
    {<<s, c>> : s \in {"ok", "api_error"}, c \in ReplyShapes} \cup {<<"transport", <<>>>>}

Response(msg, shape) == [status |-> shape[1], messages |-> Payload(msg, shape[2])]

---------------------------------------------------------------------------
(* fetch_slack_data: the code *)

RECURSIVE UidToEmailFrom(_, _, _)
UidToEmailFrom(ms, k, d) ==
    IF k > Len(ms) THEN d
    ELSE LET u == ms[k] IN
         IF u.has_profile /\ u.email # NoEmail
         THEN UidToEmailFrom(ms, k + 1, Put(d, u.id, u.email))
         ELSE UidToEmailFrom(ms, k + 1, d)

BuildUidToEmail(ms) == UidToEmailFrom(ms, 1, EmptyMap)

Eligible(msg) == ~(msg.subtype \/ msg.bot)

HasThread(msg) == msg.thread_ts # NoTs /\ msg.reply_count > 0

CountAuthor(c, uid, map) ==
    IF uid \in DOMAIN map THEN Put(c, map[uid], Get(c, map[uid], 0) + 1) ELSE c

IsParentEntryNever(reply, msg) == FALSE

IsParentEntry(reply, msg) == reply.ts = msg.ts

RECURSIVE CountReplies(_, _, _, _, _)
CountReplies(c, msg, payload, k, map) ==
    IF k > Len(payload) THEN c
    ELSE LET reply == payload[k] IN
         IF IsParentEntry(reply, msg) THEN CountReplies(c, msg, payload, k + 1, map)
         ELSE IF reply.bot THEN CountReplies(c, msg, payload, k + 1, map)
         ELSE CountReplies(CountAuthor(c, reply.user, map), msg, payload, k + 1, map)

ThreadErrorDropsCounts(c, msg, resp, map) == EmptyMap

ThreadErrorRetries(c, msg, resp, map) == CountReplies(c, msg, resp.messages, 1, map)

(* except SlackApiError around one thread: print, sleep(1), continue *)
ThreadError(c, msg, resp, map) == c

Fetches(msg) == Eligible(msg) /\ HasThread(msg)

(* One iteration of the message loop that runs to its end: counts afterwards *)
StepCounts(c, msg, resp, map) ==
    IF ~Eligible(msg) THEN c
    ELSE LET c1 == CountAuthor(c, msg.user, map) IN
         IF ~HasThread(msg) THEN c1
         ELSE IF resp.status = "ok" THEN CountReplies(c1, msg, resp.messages, 1, map)
         ELSE ThreadError(c1, msg, resp, map)

(* The iteration is left by an exception no handler of the function catches *)
StepRaises(msg, resp) == Fetches(msg) /\ resp.status = "transport"

NoResponse == [status |-> "ok", messages |-> <<>>]

RECURSIVE FoldCounts(_, _, _, _, _)
FoldCounts(msgs, resps, k, c, map) ==
    IF k > Len(msgs) THEN c
    ELSE FoldCounts(msgs, resps, k + 1,
                    StepCounts(c, msgs[k], Get(resps, k, NoResponse), map), map)

FetchIndices(msgs) == {k \in 1..Len(msgs) : Fetches(msgs[k])}

(* Every way the platform can answer the thread fetches of one history *)
ResponseChoices(msgs) ==
    {[k \in FetchIndices(msgs) |-> Response(msgs[k], r[k])] :
        r \in [FetchIndices(msgs) -> ThreadShapes]}

---------------------------------------------------------------------------
(* fetch_linear_data *)

IssueChoices ==
    {[has_assignee |-> FALSE, email |-> NoEmail], [has_assignee |-> TRUE, email |-> NoEmail]}
      \cup {[has_assignee |-> TRUE, email |-> e] : e \in Emails}

IssueLists == UNION {[1..n -> IssueChoices] : n \in 0..MaxIssues}

LinearOutcomes == {"ok", "non200", "exception"}

RECURSIVE LinearCountsFrom(_, _, _)
LinearCountsFrom(issues, k, c) ==
    IF k > Len(issues) THEN c
    ELSE LET issue == issues[k] IN
         IF issue.has_assignee /\ issue.email # NoEmail
         THEN LinearCountsFrom(issues, k + 1, Put(c, issue.email, Get(c, issue.email, 0) + 1))
         ELSE LinearCountsFrom(issues, k + 1, c)

LinearCounts(issues) == LinearCountsFrom(issues, 1, EmptyMap)

---------------------------------------------------------------------------
(* main: reconcile and write *)

(* set(df["Email"]) if not df.empty else set() *)
EmailsOf(df) == IF DOMAIN df # {} THEN DOMAIN df ELSE {}

AllEmailsWithoutLinear(dir, s, l) == (DOMAIN dir) \cup EmailsOf(s)

AllEmails(dir, s, l) == (DOMAIN dir) \cup EmailsOf(s) \cup EmailsOf(l)

DefaultProfileAsEmployee(email) == [UserName |-> email, Role |-> "Employee", Avatar |-> ""]

DefaultProfile(email) == [UserName |-> email, Role |-> "Unknown", Avatar |-> ""]

(* df[df["Email"] == email][column].sum(), 0 when the frame or the selection is empty *)
CountIn(df, email) ==
    IF DOMAIN df = {} THEN 0
    ELSE IF email \in DOMAIN df THEN df[email] ELSE 0

WorkingHoursZeroForUnknown(role) ==
    IF role = "Employee" THEN EmployeeHours
    ELSE IF role = "Contractor" THEN DefaultHours ELSE 0

WorkingHours(role) == IF role = "Employee" THEN EmployeeHours ELSE DefaultHours

MakeRow(email, dir, s, l) ==
    LET profile == Get(dir, email, DefaultProfile(email)) IN
    [Email |-> email,
     User |-> profile.UserName,
     Role |-> profile.Role,
     Avatar |-> profile.Avatar,
     SlackCount |-> CountIn(s, email),
     LinearCount |-> CountIn(l, email),
     WorkingHours |-> WorkingHours(profile.Role)]

(* for email in all_emails: the iteration order of a set of strings is any order *)
Orderings(S) ==
    {f \in [1..Cardinality(S) -> S] : \A a, b \in 1..Cardinality(S) : a # b => f[a] # f[b]}

BuildRows(order, dir, s, l) == [k \in 1..Len(order) |-> MakeRow(order[k], dir, s, l)]

CsvHeader ==
    <<"Email", "User", "Role", "Avatar", "Slack Count", "Linear Count", "Working Hours">>

CsvLine(r) ==
    <<r.Email, r.User, r.Role, r.Avatar, r.SlackCount, r.LinearCount, r.WorkingHours>>

NoFile == [exists |-> FALSE, header |-> <<>>, lines |-> <<>>]

Truncated == [exists |-> TRUE, header |-> <<>>, lines |-> <<>>]

(* DataFrame(rows).to_csv(path, index=False): the header line, then a line per row *)
ToCsv(rs) ==
    [exists |-> TRUE, header |-> CsvHeader, lines |-> [k \in 1..Len(rs) |-> CsvLine(rs[k])]]

AppendCsv(old, rs) ==
    [exists |-> TRUE, header |-> CsvHeader, lines |-> old.lines \o ToCsv(rs).lines]

(* to_csv opens the path for writing: what the file held is gone *)
Overwrite(old, rs) == ToCsv(rs)

---------------------------------------------------------------------------
(* State *)

NoStatus == [dir |-> "pending", slack |-> "pending", linear |-> "pending"]

InitLocals ==
    /\ user_directory = EmptyMap
    /\ df_slack = EmptyMap
    /\ df_linear = EmptyMap
    /\ rows = <<>>
    /\ status = NoStatus
    /\ uid_to_email = EmptyMap
    /\ messages = <<>>
    /\ i = 1
    /\ counts = EmptyMap
    /\ threads = EmptyMap

Init ==
    /\ pc = "start"
    /\ token \in BOOLEAN
    /\ members \in Workspaces
    /\ file = NoFile
    /\ prev_file = NoFile
    /\ InitLocals

---------------------------------------------------------------------------
(* Spec: one run of main() *)

FetchDirectory ==
    /\ pc = "start"
    /\ IF ~token
       THEN /\ user_directory' = EmptyMap
            /\ status' = [status EXCEPT !.dir = "skipped"]
            /\ pc' = "slack"
       ELSE \E outcome \in CallOutcomes :
              CASE outcome = "ok" ->
                     /\ user_directory' = BuildDirectory(members)
                     /\ status' = [status EXCEPT !.dir = "ok"]
                     /\ pc' = "slack"
                [] outcome = "api_error" ->
                     /\ user_directory' = EmptyMap
                     /\ status' = [status EXCEPT !.dir = "error"]
                     /\ pc' = "slack"
                [] outcome = "transport" ->
                     /\ pc' = "crashed"
                     /\ UNCHANGED <<user_directory, status>>
    /\ UNCHANGED <<token, members, df_slack, df_linear, rows, file, prev_file>>
    /\ UNCHANGED slackVars

SlackEmpty(next) ==
    /\ df_slack' = EmptyMap
    /\ pc' = next

FetchSlackData ==
    /\ pc = "slack"
    /\ \E channel \in BOOLEAN :
         IF ~token \/ ~channel
         THEN /\ SlackEmpty("linear")
              /\ status' = [status EXCEPT !.slack = "skipped"]
         ELSE \E users_list \in CallOutcomes, history \in CallOutcomes :
                IF users_list = "transport" \/ (users_list = "ok" /\ history = "transport")
                THEN /\ pc' = "crashed"
                     /\ UNCHANGED <<df_slack, status>>
                ELSE IF users_list = "api_error" \/ history = "api_error"
                THEN /\ SlackEmpty("linear")
                     /\ status' = [status EXCEPT !.slack = "error"]
                ELSE \E msgs \in Histories :
                       \E resps \in ResponseChoices(msgs) :
                         IF \E k \in DOMAIN resps : StepRaises(msgs[k], resps[k])
                         THEN /\ pc' = "crashed"
                              /\ UNCHANGED <<df_slack, status>>
                         ELSE /\ df_slack' = FoldCounts(msgs, resps, 1, EmptyMap,
                                                         BuildUidToEmail(members))
                              /\ status' = [status EXCEPT !.slack = "ok"]
                              /\ pc' = "linear"
    /\ UNCHANGED <<token, members, user_directory, df_linear, rows, file, prev_file>>
    /\ UNCHANGED slackVars

FetchLinear ==
    /\ pc = "linear"
    /\ \E key \in BOOLEAN :
         IF ~key
         THEN /\ df_linear' = EmptyMap
              /\ status' = [status EXCEPT !.linear = "skipped"]
         ELSE \E outcome \in LinearOutcomes, issues \in IssueLists :
                IF outcome = "ok"
                THEN /\ df_linear' = LinearCounts(issues)
                     /\ status' = [status EXCEPT !.linear = "ok"]
                ELSE /\ df_linear' = EmptyMap
                     /\ status' = [status EXCEPT !.linear = "error"]
    /\ pc' = "reconcile"
    /\ UNCHANGED <<token, members, user_directory, df_slack, rows, file, prev_file>>
    /\ UNCHANGED slackVars

Reconcile ==
    /\ pc = "reconcile"
    /\ \E order \in Orderings(AllEmails(user_directory, df_slack, df_linear)) :
         rows' = BuildRows(order, user_directory, df_slack, df_linear)
    /\ pc' = "reconciled"
    /\ UNCHANGED <<token, members, user_directory, df_slack, df_linear, file, prev_file, status>>
    /\ UNCHANGED slackVars

NoData ==
    /\ pc = "reconciled"
    /\ rows = <<>>
    /\ pc' = "done"
    /\ UNCHANGED <<token, members, status>>
    /\ UNCHANGED mainVars
    /\ UNCHANGED slackVars

WriteCsv ==
    /\ pc = "reconciled"
    /\ rows # <<>>
    /\ file' = Overwrite(file, rows)
    /\ pc' = "done"
    /\ UNCHANGED <<token, members, user_directory, df_slack, df_linear, rows, prev_file, status>>
    /\ UNCHANGED slackVars

(* os.makedirs or to_csv raises: the path cannot be created or opened (the   *)
(* file is as it was) or the write breaks off after the open (what was       *)
(* written is lost with the rest)                                            *)
WriteFails ==
    /\ pc = "reconciled"
    /\ rows # <<>>
    /\ file' \in {file, Truncated}
    /\ pc' = "write_failed"
    /\ UNCHANGED <<token, members, user_directory, df_slack, df_linear, rows, prev_file, status>>
    /\ UNCHANGED slackVars

Next ==
    \/ FetchDirectory
    \/ FetchSlackData
    \/ FetchLinear
    \/ Reconcile
    \/ NoData
    \/ WriteCsv
    \/ WriteFails

Spec == Init /\ [][Next]_vars

---------------------------------------------------------------------------
(* SpecSlack: fetch_slack_data() step by step *)

InitSlack ==
    /\ pc = "slack_entry"
    /\ token \in BOOLEAN
    /\ members \in Workspaces
    /\ file = NoFile
    /\ prev_file = NoFile
    /\ InitLocals

SlackUsersList ==
    /\ pc = "slack_entry"
    /\ \E channel \in BOOLEAN :
         IF ~token \/ ~channel
         THEN /\ SlackEmpty("slack_returned")
              /\ status' = [status EXCEPT !.slack = "skipped"]
              /\ UNCHANGED uid_to_email
         ELSE \E outcome \in CallOutcomes :
                CASE outcome = "ok" ->
                       /\ uid_to_email' = BuildUidToEmail(members)
                       /\ pc' = "slack_history"
                       /\ UNCHANGED <<df_slack, status>>
                  [] outcome = "api_error" ->
                       /\ SlackEmpty("slack_returned")
                       /\ status' = [status EXCEPT !.slack = "error"]
                       /\ UNCHANGED uid_to_email
                  [] outcome = "transport" ->
                       /\ pc' = "crashed"
                       /\ UNCHANGED <<df_slack, status, uid_to_email>>
    /\ UNCHANGED <<token, members, user_directory, df_linear, rows, file, prev_file>>
    /\ UNCHANGED <<messages, i, counts, threads>>

SlackHistory ==
    /\ pc = "slack_history"
    /\ \E outcome \in CallOutcomes :
         CASE outcome = "ok" ->
                /\ messages' \in Histories
                /\ counts' = EmptyMap
                /\ i' = 1
                /\ pc' = "slack_loop"
                /\ UNCHANGED <<df_slack, status>>
           [] outcome = "api_error" ->
                /\ SlackEmpty("slack_returned")
                /\ status' = [status EXCEPT !.slack = "error"]
                /\ UNCHANGED <<messages, counts, i>>
           [] outcome = "transport" ->
                /\ pc' = "crashed"
                /\ UNCHANGED <<df_slack, status, messages, counts, i>>
    /\ UNCHANGED <<token, members, user_directory, df_linear, rows, file, prev_file>>
    /\ UNCHANGED <<uid_to_email, threads>>

ProcessMessage ==
    /\ pc = "slack_loop"
    /\ i <= Len(messages)
    /\ LET msg == messages[i] IN
       IF Fetches(msg)
       THEN \E shape \in ThreadShapes :
              LET resp == Response(msg, shape) IN
              /\ threads' = Put(threads, i, resp)
              /\ IF StepRaises(msg, resp)
                 THEN /\ pc' = "crashed"
                      /\ UNCHANGED <<counts, i>>
                 ELSE /\ counts' = StepCounts(counts, msg, resp, uid_to_email)
                      /\ i' = i + 1
                      /\ pc' = pc
       ELSE /\ counts' = StepCounts(counts, msg, NoResponse, uid_to_email)
            /\ i' = i + 1
            /\ UNCHANGED <<pc, threads>>
    /\ UNCHANGED <<token, members, user_directory, df_slack, df_linear, rows, file,
                   prev_file, status>>
    /\ UNCHANGED <<uid_to_email, messages>>

SlackReturn ==
    /\ pc = "slack_loop"
    /\ i > Len(messages)
    /\ df_slack' = counts
    /\ status' = [status EXCEPT !.slack = "ok"]
    /\ pc' = "slack_returned"
    /\ UNCHANGED <<token, members, user_directory, df_linear, rows, file, prev_file>>
    /\ UNCHANGED slackVars

NextSlack ==
    \/ SlackUsersList
    \/ SlackHistory
    \/ ProcessMessage
    \/ SlackReturn

SpecSlack == InitSlack /\ [][NextSlack]_vars

---------------------------------------------------------------------------
(* SpecRuns: run after run of main() over the same data/engagement.csv *)

(* What the three fetch functions can hand to main() *)
Directories == {BuildDirectory(ms) : ms \in Workspaces} \cup {EmptyMap}

CountMaps == UNION {[S -> 1..MaxCount] : S \in SUBSET Emails}

InitRuns ==
    /\ pc = "start"
    /\ token = TRUE
    /\ members = <<U1Employee, U2Guest, B1Bot>>
    /\ file = NoFile
    /\ prev_file = NoFile
    /\ InitLocals

FetchStages ==
    /\ pc = "start"
    /\ \/ /\ user_directory' \in Directories
          /\ df_slack' \in CountMaps
          /\ df_linear' \in CountMaps
          /\ pc' = "reconcile"
       \/ /\ pc' = "crashed"
          /\ UNCHANGED <<user_directory, df_slack, df_linear>>
    /\ UNCHANGED <<token, members, rows, file, prev_file, status>>
    /\ UNCHANGED slackVars

NextRun ==
    /\ pc \in {"done", "write_failed", "crashed"}
    /\ pc' = "start"
    /\ prev_file' = file
    /\ user_directory' = EmptyMap
    /\ df_slack' = EmptyMap
    /\ df_linear' = EmptyMap
    /\ rows' = <<>>
    /\ UNCHANGED <<token, members, file, status>>
    /\ UNCHANGED slackVars

NextRuns ==
    \/ FetchStages
    \/ Reconcile
    \/ NoData
    \/ WriteCsv
    \/ WriteFails
    \/ NextRun

SpecRuns == InitRuns /\ [][NextRuns]_vars

---------------------------------------------------------------------------
(* Properties *)

Reconciled == pc \in {"reconciled", "done", "write_failed"}

RowIndices == 1..Len(rows)

SourceEmails == (DOMAIN user_directory) \cup (DOMAIN df_slack) \cup (DOMAIN df_linear)

(* C1: the record set built by main() holds exactly one record per email of *)
(* the union of the directory's, the Slack counts' and the Linear counts'   *)
(* emails: none is missing, none appears twice, none comes from elsewhere.  *)
C1_UnionComplete ==
    Reconciled =>
      /\ {rows[k].Email : k \in RowIndices} = SourceEmails
      /\ Len(rows) = Cardinality(SourceEmails)
      /\ \A j, k \in RowIndices : rows[j].Email = rows[k].Email => j = k

C1_Witness ==
    /\ pc = "reconciled"
    /\ Len(rows) = 2
    /\ "a@x.com" \notin DOMAIN user_directory
    /\ "a@x.com" \notin DOMAIN df_slack
    /\ "a@x.com" \in DOMAIN df_linear
    /\ "b@y.com" \in DOMAIN user_directory
    /\ "b@y.com" \in DOMAIN df_slack
    /\ "b@y.com" \notin DOMAIN df_linear

(* C6: in every record Working Hours follows from Role alone: 40 for        *)
(* Employee, 20 for Contractor and Unknown; never zero, and the same for    *)
(* two records of the same Role.                                            *)
C6_HoursFromRole ==
    Reconciled =>
      /\ \A k \in RowIndices :
           /\ rows[k].Role \in {"Employee", "Contractor", "Unknown"}
           /\ rows[k].Role = "Employee" => rows[k].WorkingHours = 40
           /\ rows[k].Role \in {"Contractor", "Unknown"} => rows[k].WorkingHours = 20
           /\ rows[k].WorkingHours # 0
      /\ \A j, k \in RowIndices :
           rows[j].Role = rows[k].Role => rows[j].WorkingHours = rows[k].WorkingHours

C6_Witness ==
    /\ pc = "reconciled"
    /\ \E j, k \in RowIndices :
         /\ rows[j].Role = "Employee" /\ rows[j].WorkingHours = 40 /\ rows[j].SlackCount > 0
         /\ rows[k].Role = "Unknown" /\ rows[k].WorkingHours = 20

(* C7: an email of the Slack or Linear counts that the directory does not   *)
(* hold gets Role Unknown, Working Hours 20, the email as User, an empty    *)
(* Avatar, and a count of 0 for each source whose mapping lacks it.         *)
C7_DefaultFill ==
    Reconciled =>
      \A k \in RowIndices :
        rows[k].Email \notin DOMAIN user_directory =>
          /\ rows[k].Role = "Unknown"
          /\ rows[k].WorkingHours = 20
          /\ rows[k].User = rows[k].Email
          /\ rows[k].Avatar = ""
          /\ rows[k].Email \notin DOMAIN df_slack => rows[k].SlackCount = 0
          /\ rows[k].Email \notin DOMAIN df_linear => rows[k].LinearCount = 0
          /\ rows[k].Email \in DOMAIN df_slack => rows[k].SlackCount = df_slack[rows[k].Email]
          /\ rows[k].Email \in DOMAIN df_linear => rows[k].LinearCount = df_linear[rows[k].Email]

(* Scenario C: no Slack token, two Linear completions of b@y.com *)
C7_Witness ==
    /\ pc = "reconciled"
    /\ ~token
    /\ user_directory = EmptyMap
    /\ \E k \in RowIndices :
         /\ rows[k].Email = "b@y.com"
         /\ rows[k].LinearCount = 2
         /\ rows[k].SlackCount = 0
         /\ rows[k].Role = "Unknown"

(* C4: no failure inside a fetch stage aborts the run: whatever the         *)
(* directory fetch, the conversation aggregation and the issue aggregation  *)
(* meet, main() goes on to the reconcile step.                              *)
C4_NoFetchFailureAborts == pc # "crashed"

(* C10: when both member listings succeed on the same upstream data, every  *)
(* email that receives a Slack count has a directory entry and its record   *)
(* has Role Employee or Contractor, never Unknown.                          *)
C10_CountedEmailsInDirectory ==
    (Reconciled /\ status.dir = "ok" /\ status.slack = "ok") =>
      /\ DOMAIN df_slack \subseteq DOMAIN user_directory
      /\ \A k \in RowIndices :
           rows[k].SlackCount > 0 => rows[k].Role \in {"Employee", "Contractor"}

---------------------------------------------------------------------------
(* Properties of fetch_slack_data *)

Returned == pc = "slack_returned" /\ status.slack = "ok"

EmailOfUid(uid) == Get(uid_to_email, uid, NoEmail)

FetchedOk == {k \in DOMAIN threads : threads[k].status = "ok"}

FailedThreads == {k \in DOMAIN threads : threads[k].status = "api_error"}

(* The timestamps of the messages of email e that the platform returned:    *)
(* the history's non-bot, non-system messages and the non-bot entries of    *)
(* the replies payloads.                                                    *)
ParentTs(e) ==
    {messages[k].ts : k \in {j \in 1..Len(messages) :
        Eligible(messages[j]) /\ EmailOfUid(messages[j].user) = e}}

EntryTs(k, e) ==
    {threads[k].messages[j].ts : j \in {n \in 1..Len(threads[k].messages) :
        /\ ~threads[k].messages[n].bot
        /\ EmailOfUid(threads[k].messages[n].user) = e}}

ReturnedTs(e) == ParentTs(e) \cup UNION {EntryTs(k, e) : k \in FetchedOk}

(* C2: every message and every reply is counted at most once: an email's    *)
(* count is the number of distinct messages (by timestamp) among the        *)
(* attributed non-bot parents and the attributed non-bot entries of the     *)
(* replies payloads, the payload's copy of the parent not counted again.    *)
C2_CountedOnce ==
    Returned =>
      /\ DOMAIN df_slack \subseteq Emails
      /\ \A e \in Emails : CountIn(df_slack, e) = Cardinality(ReturnedTs(e))

(* Scenario B: a thread whose parent and whose reply are by the same user *)
C2_Witness ==
    /\ Returned
    /\ Len(messages) = 1
    /\ messages[1].user = "U1"
    /\ 1 \in FetchedOk
    /\ Len(threads[1].messages) = 2
    /\ threads[1].messages[1].ts = messages[1].ts
    /\ threads[1].messages[2].user = "U1"
    /\ df_slack["a@x.com"] = 2

(* The thread fetches as the claim's comparison has them *)
AsIfNoReplies(resps) ==
    [k \in DOMAIN resps |->
       IF resps[k].status = "api_error"
       THEN [status |-> "ok", messages |-> <<ParentEntry(messages[k])>>]
       ELSE resps[k]]

AsIfRetried(resps) ==
    [k \in DOMAIN resps |->
       IF resps[k].status = "api_error"
       THEN [status |-> "ok", messages |-> resps[k].messages]
       ELSE resps[k]]

(* C5: a replies fetch that fails with a rate-limit or API error does not   *)
(* end the message loop (the loop moves on to the next message), and the    *)
(* counts the function returns are those it would return had each failed    *)
(* thread had no replies.                                                   *)
C5_FailedThreadIsolated ==
    /\ \A k \in FailedThreads : k < i
    /\ Returned =>
         df_slack = FoldCounts(messages, AsIfNoReplies(threads), 1, EmptyMap, uid_to_email)

C5_Witness ==
    /\ Returned
    /\ Len(messages) = 2
    /\ 1 \in FailedThreads
    /\ Len(threads[1].messages) = 2
    /\ 2 \in FetchedOk
    /\ Len(threads[2].messages) = 2
    /\ CountIn(df_slack, "a@x.com") + CountIn(df_slack, "b@y.com") = 3

(* The replies of email e that the failed threads hold *)
LostReplyTs(e) ==
    UNION {EntryTs(k, e) \ {messages[k].ts} : k \in FailedThreads}

CountsIfRetried == FoldCounts(messages, AsIfRetried(threads), 1, EmptyMap, uid_to_email)

(* C8 as stated: a thread whose first replies fetch fails and whose next    *)
(* attempt would succeed has its replies counted.                           *)
C8_RetriedThenCounted == Returned => df_slack = CountsIfRetried

(* C8 as amended: the replies fetch is not retried; a thread whose first    *)
(* attempt fails is skipped, and the counts fall short of the counts of a   *)
(* retried fetch by exactly the replies of the failed threads.              *)
C8_SkippedAfterFirstFailure ==
    Returned =>
      \A e \in Emails :
        CountIn(df_slack, e) + Cardinality(LostReplyTs(e)) = CountIn(CountsIfRetried, e)

C8_Witness ==
    /\ Returned
    /\ FailedThreads # {}
    /\ LostReplyTs("a@x.com") # {}
    /\ CountIn(df_slack, "a@x.com") < CountIn(CountsIfRetried, "a@x.com")

(* C9: the replies of every parent message with at least one reply are      *)
(* fetched, whether or not the parent itself is counted.                    *)
C9_EveryThreadFetched ==
    Returned => \A k \in 1..Len(messages) : HasThread(messages[k]) => k \in DOMAIN threads

---------------------------------------------------------------------------
(* Properties of the write *)

Completed == pc = "done"

====
